---------------------------- MODULE Spec2Model ----------------------------
(***************************************************************************)
(* A model of the mry mock dispatch engine (mry/src/mock/mod.rs).          *)
(*                                                                         *)
(* One Mock<usize, String> is modelled: its name, its call log and its     *)
(* ordered rule list, driven by the five entry points of MockObject and    *)
(* MockObjectReturns.  A panic unwinds out of the entry point and leaves   *)
(* the Mock as it was at the panic (the log lock is a parking_lot Mutex,   *)
(* never poisoned, and is not held at either panic site), so a caller that *)
(* catches the unwind can go on using the Mock.                            *)
(*                                                                         *)
(* Matcher, Rule, Output, Logs and MockResult are used by mod.rs but       *)
(* defined in files that are not among the sources at hand; they are       *)
(* modelled from the written specification and the tests of mod.rs.        *)
(*                                                                         *)
(* Spec drives one Mock sequentially, SpecConc lets two threads dispatch   *)
(* on it, SpecPure applies the functions that need no Mock (Times, the     *)
(* count check, the tuple matchers) to drawn arguments, SpecWrapper runs   *)
(* the function generated around an intercepted method, and SpecLock runs  *)
(* dispatches and assertions of two threads statement by statement, with   *)
(* the Mutex of the log (SpecLockFair adds the scheduling of the threads). *)
(***************************************************************************)
EXTENDS Naturals, Sequences, FiniteSets

VARIABLES
    name,    \* Mock::name
    logs,    \* Mock::logs, the contents behind the Mutex
    rules,   \* Mock::rules
    last,    \* the last entry-point call and what it returned
    issued,  \* history: every input handed to the dispatch entry point, in order
    origin,  \* history: for each rule, the registration call that made it
    wins,    \* history: for each Const rule over a finite sequence, how many
             \* dispatches it was the first accepting rule of (0 for other rules)
    setup,   \* the registration calls made before the threads start
    plan,    \* for each thread, the inputs it dispatches, in program order
    pc,      \* for each thread, where it is in its current dispatch
    done,    \* for each thread, the outcomes of its completed dispatches
    began,   \* history: for each dispatch, the dispatches completed when it began
    logIds,  \* history: the dispatch (thread, number) behind each log entry
    handed,  \* history: the values Const rules handed out, in order
    calc,    \* the last evaluation of a Times, count-check or tuple-matcher
             \* function: its arguments and its result
    wrapper, \* one call of a generated wrapper function: where it is and
             \* what has run
    mutex,   \* the thread holding the Mutex of Mock::logs (0: nobody)
    job      \* for each thread, the entry point it is executing, statement
             \* by statement

seqVars == <<name, logs, rules, last, issued, origin, wins>>
lockVars == <<mutex, job>>
concVars == <<setup, plan, pc, done, began, logIds, handed, lockVars>>
pureVars == <<calc, wrapper>>
vars == <<seqVars, concVars, pureVars>>

---------------------------------------------------------------------------
(* Bounds of the model *)

MaxRules == 2
MaxCalls == 3
CallsPerThread == 2
MaxBound == 4
MaxWrapperCalls == 2
JobsPerThread == 2
MaxCount == 5

Threads == {1, 2}

Names == {"a"}
Inputs == {2, 3}
Outputs == {"x", "y"}

---------------------------------------------------------------------------
(* Matcher<I> *)

Any == [kind |-> "Any", val |-> 0]
Never == [kind |-> "Never", val |-> 0]
Eq(v) == [kind |-> "Eq", val |-> v]
NoMatcher == [kind |-> "", val |-> 0]

\* the matchers a test registers rules with, and those it asserts with
RuleMatchers == {Any, Never, Eq(3)}
AssertMatchers == {Any, Never, Eq(2)}

Matches(matcher, input) ==
    CASE matcher.kind = "Any" -> TRUE
      [] matcher.kind = "Never" -> FALSE
      [] matcher.kind = "Eq" -> input = matcher.val
      [] OTHER -> FALSE

---------------------------------------------------------------------------
(* Behavior<I, O> and the iterator behind Behavior::Const *)

\* std::iter::repeat(ret): never ends, every next() is a clone of ret
Repeat(ret) == [endless |-> TRUE, items |-> <<ret>>]
\* a finite iterator over the given items, e.g. vec.into_iter()
Finite(items) == [endless |-> FALSE, items |-> items]
NoIter == [endless |-> FALSE, items |-> <<>>]

\* Iterator::next: the element if any, and the iterator afterwards
IterNext(iter) ==
    IF iter.items = <<>>
    THEN [some |-> FALSE, val |-> "", iter |-> iter]
    ELSE [some |-> TRUE, val |-> Head(iter.items),
          iter |-> IF iter.endless THEN iter ELSE Finite(Tail(iter.items))]

Function(f) == [kind |-> "Function", f |-> f, iter |-> NoIter]
Const(iter) == [kind |-> "Const", f |-> "", iter |-> iter]
BehaviorCallsRealImpl == [kind |-> "CallsRealImpl", f |-> "", iter |-> NoIter]

RECURSIVE StrRepeat(_, _)
\* str::repeat
StrRepeat(s, n) == IF n = 0 THEN "" ELSE s \o StrRepeat(s, n - 1)

\* the closures the tests of mod.rs register
Apply(f, input) ==
    CASE f = "repeat_a" -> StrRepeat("a", input)
      [] f = "fortytwo" -> "42"
      [] OTHER -> ""

TodoMessage == "not yet implemented"
UnwrapMessage == "called Option::unwrap() on a None value"

\* Behavior::called: Option<O>, or the panic of todo!()
BehaviorCalled(behavior, input) ==
    IF behavior.kind = "Function"
    THEN [tag |-> "Some", val |-> Apply(behavior.f, input), msg |-> ""]
    ELSE [tag |-> "Panic", val |-> "", msg |-> TodoMessage]

---------------------------------------------------------------------------
(* Rule<I, O> and Output<O> *)

Rule(matcher, behavior) == [matcher |-> matcher, behavior |-> behavior]

\* Rule::called with an exhausted Const declining instead of panicking
RuleCalledExhaustedDeclines(rule, input) ==
    IF ~Matches(rule.matcher, input)
    THEN [tag |-> "NotMatches", val |-> "", msg |-> "", rule |-> rule]
    ELSE CASE rule.behavior.kind = "CallsRealImpl" ->
                [tag |-> "CallsRealImpl", val |-> "", msg |-> "", rule |-> rule]
           [] rule.behavior.kind = "Const" ->
                LET n == IterNext(rule.behavior.iter)
                    after == Rule(rule.matcher, Const(n.iter))
                IN  IF n.some
                    THEN [tag |-> "Found", val |-> n.val, msg |-> "", rule |-> after]
                    ELSE [tag |-> "NotMatches", val |-> "", msg |-> "", rule |-> after]
           [] OTHER ->
                LET out == BehaviorCalled(rule.behavior, input)
                IN  IF out.tag = "Some"
                    THEN [tag |-> "Found", val |-> out.val, msg |-> "", rule |-> rule]
                    ELSE [tag |-> "Panic", val |-> "", msg |-> out.msg, rule |-> rule]

\* Rule::called(&mut self, &input): the Output, and the rule afterwards
RuleCalled(rule, input) ==
    IF ~Matches(rule.matcher, input)
    THEN [tag |-> "NotMatches", val |-> "", msg |-> "", rule |-> rule]
    ELSE CASE rule.behavior.kind = "CallsRealImpl" ->
                [tag |-> "CallsRealImpl", val |-> "", msg |-> "", rule |-> rule]
           [] rule.behavior.kind = "Const" ->
                LET n == IterNext(rule.behavior.iter)
                    after == Rule(rule.matcher, Const(n.iter))
                IN  IF n.some
                    THEN [tag |-> "Found", val |-> n.val, msg |-> "", rule |-> after]
                    ELSE [tag |-> "Panic", val |-> "", msg |-> UnwrapMessage,
                          rule |-> after]
           [] OTHER ->
                LET out == BehaviorCalled(rule.behavior, input)
                IN  IF out.tag = "Some"
                    THEN [tag |-> "Found", val |-> out.val, msg |-> "", rule |-> rule]
                    ELSE [tag |-> "Panic", val |-> "", msg |-> out.msg, rule |-> rule]

---------------------------------------------------------------------------
(* Logs<I> and the Debug renderings used by the panic messages *)

\* a log that keeps one entry per distinct input
PushUnlessPresent(l, input) ==
    IF \E i \in 1..Len(l) : l[i] = input THEN l ELSE Append(l, input)

\* a log with the newest entry first
PushFront(l, input) == <<input>> \o l

\* Vec::push behind Logs
Push(l, input) == Append(l, input)

RECURSIVE FilterMatches(_, _)
\* Logs::filter_matches: the entries the matcher accepts, in the log's order
FilterMatches(l, matcher) ==
    IF l = <<>> THEN <<>>
    ELSE IF Matches(matcher, Head(l))
         THEN <<Head(l)>> \o FilterMatches(Tail(l), matcher)
         ELSE FilterMatches(Tail(l), matcher)

Digit(d) ==
    CASE d = 0 -> "0" [] d = 1 -> "1" [] d = 2 -> "2" [] d = 3 -> "3"
      [] d = 4 -> "4" [] d = 5 -> "5" [] d = 6 -> "6" [] d = 7 -> "7"
      [] d = 8 -> "8" [] OTHER -> "9"

RECURSIVE DisplayUsize(_)
\* usize as Display and Debug print it: decimal digits
DisplayUsize(n) ==
    IF n < 10 THEN Digit(n) ELSE DisplayUsize(n \div 10) \o Digit(n % 10)

RECURSIVE JoinComma(_)
JoinComma(strs) ==
    IF strs = <<>> THEN ""
    ELSE IF Len(strs) = 1 THEN Head(strs)
         ELSE Head(strs) \o ", " \o JoinComma(Tail(strs))

\* {:?} of Logs<usize>, e.g. [1, 2, 2]
DebugLogs(l) ==
    "[" \o JoinComma([i \in 1..Len(l) |-> DisplayUsize(l[i])]) \o "]"

DebugMatcher(matcher) ==
    CASE matcher.kind = "Eq" -> "Eq(" \o DisplayUsize(matcher.val) \o ")"
      [] OTHER -> matcher.kind

DebugBehavior(behavior) ==
    CASE behavior.kind = "CallsRealImpl" -> "CallsRealImpl"
      [] OTHER -> behavior.kind \o "(_)"

DebugRule(rule) ==
    "Rule { matcher: " \o DebugMatcher(rule.matcher)
        \o ", behavior: " \o DebugBehavior(rule.behavior) \o " }"

\* {:?} of Vec<Rule<I, O>>
DebugRules(rs) ==
    "[" \o JoinComma([i \in 1..Len(rs) |-> DebugRule(rs[i])]) \o "]"

---------------------------------------------------------------------------
(* Mock<I, O>: the entry points, as functions of the Mock and the arguments *)

\* Mock::new
New(n) == [name |-> n, logs |-> <<>>, rules |-> <<>>]

NoResult == [name |-> "", logs |-> <<>>]

\* what an entry point hands back: the Mock afterwards and the outcome
\* (tag: "Unit", "Some", "None", "MockResult" or "Panic")
Ret(self, tag, val, msg, res) ==
    [self |-> self, tag |-> tag, val |-> val, msg |-> msg, res |-> res]

\* MockObject::returns_with
\* a registration that puts the new rule in front (self.rules.insert(0, ..))
returns_with_in_front(self, matcher, behavior) ==
    Ret([self EXCEPT !.rules = <<Rule(matcher, behavior)>> \o @],
        "Unit", "", "", NoResult)

returns_with(self, matcher, behavior) ==
    Ret([self EXCEPT !.rules = Append(@, Rule(matcher, behavior))],
        "Unit", "", "", NoResult)

\* a registration that starts the log afresh
calls_real_impl_clears_log(self, matcher) ==
    Ret([self EXCEPT !.rules = Append(@, Rule(matcher, BehaviorCallsRealImpl)),
                     !.logs = <<>>],
        "Unit", "", "", NoResult)

\* MockObject::calls_real_impl
calls_real_impl(self, matcher) ==
    Ret([self EXCEPT !.rules = Append(@, Rule(matcher, BehaviorCallsRealImpl))],
        "Unit", "", "", NoResult)

\* returns over std::iter::once(ret) instead of repeat(ret)
returns_once(self, matcher, ret) ==
    returns_with(self, matcher, Const(Finite(<<ret>>)))

\* returns putting its rule in front of the others
returns_in_front(self, matcher, ret) ==
    Ret([self EXCEPT !.rules = <<Rule(matcher, Const(Repeat(ret)))>> \o @],
        "Unit", "", "", NoResult)

\* MockObjectReturns::returns
returns(self, matcher, ret) ==
    returns_with(self, matcher, Const(Repeat(ret)))

\* handle_assert_called handing back the whole log once something matched
handle_assert_called_unfiltered(self, matcher) ==
    LET filtered == FilterMatches(self.logs, matcher)
    IN  [logs |-> self.logs, f_called |-> filtered = <<>>]

\* Mock::handle_assert_called: the filtered log, and whether f was called
handle_assert_called(self, matcher) ==
    LET filtered == FilterMatches(self.logs, matcher)
    IN  [logs |-> filtered, f_called |-> filtered = <<>>]

\* assert_called printing the filtered log in its panic message
assert_called_dumps_matches(self, matcher) ==
    LET h == handle_assert_called(self, matcher)
    IN  IF h.f_called
        THEN Ret(self, "Panic", "",
                 self.name \o " was not called\n" \o DebugLogs(h.logs), NoResult)
        ELSE Ret(self, "MockResult", "", "",
                 [name |-> self.name, logs |-> h.logs])

\* assert_called handing back the whole log once something matched
assert_called_returns_whole_log(self, matcher) ==
    LET h == handle_assert_called(self, matcher)
    IN  IF h.f_called
        THEN Ret(self, "Panic", "",
                 self.name \o " was not called\n" \o DebugLogs(self.logs), NoResult)
        ELSE Ret(self, "MockResult", "", "",
                 [name |-> self.name, logs |-> self.logs])

RECURSIVE Unmatched(_, _)
\* the entries of l that matcher does not accept
Unmatched(l, matcher) ==
    IF l = <<>> THEN <<>>
    ELSE IF Matches(matcher, Head(l)) THEN Unmatched(Tail(l), matcher)
    ELSE <<Head(l)>> \o Unmatched(Tail(l), matcher)

\* an assert_called that takes the entries it hands back out of the log
assert_called_drains_log(self, matcher) ==
    LET h == handle_assert_called(self, matcher)
    IN  IF h.f_called
        THEN Ret(self, "Panic", "",
                 self.name \o " was not called\n" \o DebugLogs(self.logs), NoResult)
        ELSE Ret([self EXCEPT !.logs = Unmatched(@, matcher)], "MockResult", "", "",
                 [name |-> self.name, logs |-> h.logs])

\* MockObject::assert_called
assert_called(self, matcher) ==
    LET h == handle_assert_called(self, matcher)
    IN  IF h.f_called
        THEN Ret(self, "Panic", "",
                 self.name \o " was not called\n" \o DebugLogs(self.logs), NoResult)
        ELSE Ret(self, "MockResult", "", "",
                 [name |-> self.name, logs |-> h.logs])

NotFound(self, rs) ==
    Ret([self EXCEPT !.rules = rs], "Panic", "",
        "mock not found for " \o self.name \o "\n" \o DebugRules(rs), NoResult)

RECURSIVE ScanRulesSkipsRealImpl(_, _, _, _)
\* the loop with Output::CallsRealImpl => {} (goes on to the next rule)
ScanRulesSkipsRealImpl(self, rs, i, input) ==
    IF i > Len(rs)
    THEN NotFound(self, rs)
    ELSE LET out == RuleCalled(rs[i], input)
             after == [rs EXCEPT ![i] = out.rule]
         IN  CASE out.tag = "Found" ->
                    Ret([self EXCEPT !.rules = after], "Some", out.val, "", NoResult)
               [] out.tag \in {"NotMatches", "CallsRealImpl"} ->
                    ScanRulesSkipsRealImpl(self, after, i + 1, input)
               [] OTHER ->
                    Ret([self EXCEPT !.rules = after], "Panic", "", out.msg, NoResult)

RECURSIVE ScanRulesEndsInNone(_, _, _, _)
\* the loop followed by None instead of the panic
ScanRulesEndsInNone(self, rs, i, input) ==
    IF i > Len(rs)
    THEN Ret([self EXCEPT !.rules = rs], "None", "", "", NoResult)
    ELSE LET out == RuleCalled(rs[i], input)
             after == [rs EXCEPT ![i] = out.rule]
         IN  CASE out.tag = "Found" ->
                    Ret([self EXCEPT !.rules = after], "Some", out.val, "", NoResult)
               [] out.tag = "NotMatches" ->
                    ScanRulesEndsInNone(self, after, i + 1, input)
               [] out.tag = "CallsRealImpl" ->
                    Ret([self EXCEPT !.rules = after], "None", "", "", NoResult)
               [] OTHER ->
                    Ret([self EXCEPT !.rules = after], "Panic", "", out.msg, NoResult)

RECURSIVE ScanRulesNotMatchesDefers(_, _, _, _)
\* the loop with Output::NotMatches => return None
ScanRulesNotMatchesDefers(self, rs, i, input) ==
    IF i > Len(rs)
    THEN NotFound(self, rs)
    ELSE LET out == RuleCalled(rs[i], input)
             after == [rs EXCEPT ![i] = out.rule]
         IN  CASE out.tag = "Found" ->
                    Ret([self EXCEPT !.rules = after], "Some", out.val, "", NoResult)
               [] out.tag \in {"NotMatches", "CallsRealImpl"} ->
                    Ret([self EXCEPT !.rules = after], "None", "", "", NoResult)
               [] OTHER ->
                    Ret([self EXCEPT !.rules = after], "Panic", "", out.msg, NoResult)

\* rule with the cursor of its Const moved on by one, if it has one
Touched(rule) ==
    IF rule.behavior.kind = "Const"
    THEN Rule(rule.matcher, Const(IterNext(rule.behavior.iter).iter))
    ELSE rule

RECURSIVE ScanRulesCallsEveryBehavior(_, _, _, _)
\* a loop that invokes the behavior of every rule it visits before it looks
\* at what the matcher said
ScanRulesCallsEveryBehavior(self, rs, i, input) ==
    IF i > Len(rs)
    THEN NotFound(self, rs)
    ELSE LET out == RuleCalled(rs[i], input)
             after == [rs EXCEPT ![i] = Touched(rs[i])]
         IN  CASE out.tag = "Found" ->
                    Ret([self EXCEPT !.rules = after], "Some", out.val, "", NoResult)
               [] out.tag = "NotMatches" ->
                    ScanRulesCallsEveryBehavior(self, after, i + 1, input)
               [] out.tag = "CallsRealImpl" ->
                    Ret([self EXCEPT !.rules = after], "None", "", "", NoResult)
               [] OTHER ->
                    Ret([self EXCEPT !.rules = after], "Panic", "", out.msg, NoResult)

RECURSIVE ScanRulesOnCopies(_, _, _, _)
\* the loop over copies of the rules (for rule in self.rules.clone()): what a
\* behavior does to its own state is lost
ScanRulesOnCopies(self, rs, i, input) ==
    IF i > Len(rs)
    THEN NotFound(self, rs)
    ELSE LET out == RuleCalled(rs[i], input)
         IN  CASE out.tag = "Found" -> Ret(self, "Some", out.val, "", NoResult)
               [] out.tag = "NotMatches" -> ScanRulesOnCopies(self, rs, i + 1, input)
               [] out.tag = "CallsRealImpl" -> Ret(self, "None", "", "", NoResult)
               [] OTHER -> Ret(self, "Panic", "", out.msg, NoResult)

RECURSIVE ScanRules(_, _, _, _)
\* the for loop of record_call_and_find_mock_output, from rule i on, and the
\* panic that follows it
ScanRules(self, rs, i, input) ==
    IF i > Len(rs)
    THEN NotFound(self, rs)
    ELSE LET out == RuleCalled(rs[i], input)
             after == [rs EXCEPT ![i] = out.rule]
         IN  CASE out.tag = "Found" ->
                    Ret([self EXCEPT !.rules = after], "Some", out.val, "", NoResult)
               [] out.tag = "NotMatches" -> ScanRules(self, after, i + 1, input)
               [] out.tag = "CallsRealImpl" ->
                    Ret([self EXCEPT !.rules = after], "None", "", "", NoResult)
               [] OTHER ->
                    Ret([self EXCEPT !.rules = after], "Panic", "", out.msg, NoResult)

RECURSIVE ScanRulesBackward(_, _, _, _)
\* the loop over the rules in reverse (for rule in self.rules.iter_mut().rev())
ScanRulesBackward(self, rs, i, input) ==
    IF i < 1
    THEN NotFound(self, rs)
    ELSE LET out == RuleCalled(rs[i], input)
             after == [rs EXCEPT ![i] = out.rule]
         IN  CASE out.tag = "Found" ->
                    Ret([self EXCEPT !.rules = after], "Some", out.val, "", NoResult)
               [] out.tag = "NotMatches" -> ScanRulesBackward(self, after, i - 1, input)
               [] out.tag = "CallsRealImpl" ->
                    Ret([self EXCEPT !.rules = after], "None", "", "", NoResult)
               [] OTHER ->
                    Ret([self EXCEPT !.rules = after], "Panic", "", out.msg, NoResult)

\* dispatch in which the rule registered last has priority
record_call_last_rule_first(self, input) ==
    LET logged == [self EXCEPT !.logs = Push(@, input)]
    IN  ScanRulesBackward(logged, logged.rules, Len(logged.rules), input)

\* dispatch that records the call only once a rule has produced an outcome
record_call_logs_after_scan(self, input) ==
    LET r == ScanRules(self, self.rules, 1, input)
    IN  IF r.tag = "Panic" THEN r
        ELSE [r EXCEPT !.self.logs = Push(@, input)]

\* dispatch that records the call at the front of the log
record_call_logs_in_front(self, input) ==
    LET logged == [self EXCEPT !.logs = <<input>> \o @]
    IN  ScanRules(logged, logged.rules, 1, input)

\* MockObject::record_call_and_find_mock_output
record_call_and_find_mock_output(self, input) ==
    LET logged == [self EXCEPT !.logs = Push(@, input)]
    IN  ScanRules(logged, logged.rules, 1, input)

---------------------------------------------------------------------------
(* The state machine: one Mock and the calls a test makes on it *)

\* the Mock as the entry points see it
Self == [name |-> name, logs |-> logs, rules |-> rules]

NoBehavior == [kind |-> "", f |-> "", iter |-> NoIter]

\* the behaviors a test hands to returns_with: a closure, or a Const over a
\* finite sequence of values
ConstSeqs == {<<"x", "y">>}
Behaviors == {Function("repeat_a")} \cup {Const(Finite(s)) : s \in ConstSeqs}

\* the first rule, in registration order, whose matcher accepts the input
\* (0 when none does)
Accepting(rs, input) == {i \in 1..Len(rs) : Matches(rs[i].matcher, input)}
FirstAccepting(rs, input) ==
    IF Accepting(rs, input) = {} THEN 0
    ELSE CHOOSE i \in Accepting(rs, input) : \A j \in Accepting(rs, input) : i <= j

\* no threads at work
\* no function evaluated
NoCalc ==
    [op |-> "", times |-> [kind |-> "", n |-> 0, lo |-> [kind |-> "", n |-> 0],
                           hi |-> [kind |-> "", n |-> 0]],
     range |-> [kind |-> "", start |-> 0, end |-> 0], applied |-> FALSE,
     count |-> 0, ok |-> FALSE, text |-> "", logs |-> <<>>, matcher |-> NoMatcher,
     ms |-> <<>>, args |-> <<>>, tag |-> "", msg |-> "", res |-> <<>>]

\* no wrapper called
NoWrapper ==
    [pc |-> "idle", test |-> FALSE, pattern |-> FALSE, calls |-> 0, arg |-> 0,
     tag |-> "", trace |-> <<>>, ret |-> "", msg |-> "", preLogs |-> <<>>]

PureIdle == calc = NoCalc /\ wrapper = NoWrapper

\* no entry point being executed
NoJob ==
    [pc |-> "idle", n |-> 0, op |-> "", input |-> 0, matcher |-> NoMatcher,
     seen |-> <<>>, filtered |-> <<>>, dumped |-> <<>>, tag |-> "", val |-> "",
     msg |-> ""]

LockIdle == mutex = 0 /\ job = [t \in Threads |-> NoJob]

ConcIdle ==
    /\ LockIdle
    /\ setup = <<>>
    /\ plan = [t \in Threads |-> <<>>]
    /\ pc = [t \in Threads |-> "idle"]
    /\ done = [t \in Threads |-> <<>>]
    /\ began = [t \in Threads |-> <<>>]
    /\ logIds = <<>>
    /\ handed = <<>>

Init ==
    /\ ConcIdle
    /\ PureIdle
    /\ name \in Names
    /\ logs = New(name).logs
    /\ rules = New(name).rules
    /\ last = [op |-> "new", input |-> 0, matcher |-> NoMatcher, tag |-> "Unit",
               val |-> "", msg |-> "", res |-> NoResult,
               preLogs |-> <<>>, preRules |-> <<>>]
    /\ issued = <<>>
    /\ origin = <<>>
    /\ wins = <<>>

\* the effect of one entry-point call that returned (or panicked with) r
Step(op, input, matcher, r) ==
    /\ name' = r.self.name
    /\ logs' = r.self.logs
    /\ rules' = r.self.rules
    /\ last' = [op |-> op, input |-> input, matcher |-> matcher, tag |-> r.tag,
                val |-> r.val, msg |-> r.msg, res |-> r.res,
                preLogs |-> logs, preRules |-> rules]
    /\ UNCHANGED concVars
    /\ UNCHANGED pureVars

\* the registrations whose rule is a Const over a finite sequence
Counted(o) == o.op = "returns_with" /\ o.behavior.kind = "Const"

Registered(op, matcher, ret, behavior) ==
    /\ origin' = Append(origin, [op |-> op, matcher |-> matcher, ret |-> ret,
                                 behavior |-> behavior])
    /\ wins' = Append(wins, 0)
    /\ UNCHANGED issued

ReturnsWith ==
    \E matcher \in RuleMatchers, behavior \in Behaviors :
        /\ Len(origin) < MaxRules
        /\ Step("returns_with", 0, matcher, returns_with(Self, matcher, behavior))
        /\ Registered("returns_with", matcher, "", behavior)

Returns ==
    \E matcher \in RuleMatchers, ret \in Outputs :
        /\ Len(origin) < MaxRules
        /\ Step("returns", 0, matcher, returns(Self, matcher, ret))
        /\ Registered("returns", matcher, ret, NoBehavior)

CallsRealImpl ==
    \E matcher \in RuleMatchers :
        /\ Len(origin) < MaxRules
        /\ Step("calls_real_impl", 0, matcher, calls_real_impl(Self, matcher))
        /\ Registered("calls_real_impl", matcher, "", NoBehavior)

Dispatch ==
    \E input \in Inputs :
        /\ Len(issued) < MaxCalls
        /\ Step("dispatch", input, NoMatcher,
                record_call_and_find_mock_output(Self, input))
        /\ issued' = Append(issued, input)
        /\ wins' = [i \in 1..Len(wins) |->
                        IF i = FirstAccepting(rules, input) /\ Counted(origin[i])
                        THEN wins[i] + 1
                        ELSE wins[i]]
        /\ UNCHANGED origin

AssertCalled ==
    \E matcher \in AssertMatchers :
        /\ Step("assert_called", 0, matcher, assert_called(Self, matcher))
        /\ UNCHANGED <<issued, origin, wins>>

Next ==
    \/ ReturnsWith
    \/ Returns
    \/ CallsRealImpl
    \/ Dispatch
    \/ AssertCalled

Spec == Init /\ [][Next]_vars

---------------------------------------------------------------------------
(* Properties of dispatch *)

Dispatched == last.op = "dispatch"

\* the rule the last dispatch should have acted on: the first one, in
\* registration order, whose matcher accepts the input (0 when none does)
Winner == FirstAccepting(last.preRules, last.input)

OthersUntouched(w) ==
    /\ Len(rules) = Len(last.preRules)
    /\ \A j \in 1..Len(rules) : j # w => rules[j] = last.preRules[j]

NotFoundMessage == "mock not found for " \o name \o "\n" \o DebugRules(last.preRules)

\* C1: dispatch acts on the first rule, in registration order, whose matcher
\* accepts the input: what it returns is that rule's outcome, and no other rule
\* (in particular no later rule that accepts the input too) is invoked.
FirstMatchWins ==
    (Dispatched /\ Winner # 0) =>
        LET out == RuleCalled(last.preRules[Winner], last.input)
        IN  /\ out.tag = "Found" => last.tag = "Some" /\ last.val = out.val
            /\ out.tag = "CallsRealImpl" => last.tag = "None"
            /\ out.tag = "Panic" => last.tag = "Panic" /\ last.msg = out.msg
            /\ rules[Winner] = out.rule
            /\ OthersUntouched(Winner)

\* rule A Eq(3) -> "x" registered before rule B Eq(3) -> "y": dispatch(3) is "x"
FirstMatchWinsWitness ==
    /\ Dispatched /\ last.input = 3
    /\ Len(origin) = 2
    /\ origin[1] = [op |-> "returns", matcher |-> Eq(3), ret |-> "x",
                    behavior |-> NoBehavior]
    /\ origin[2] = [op |-> "returns", matcher |-> Eq(3), ret |-> "y",
                    behavior |-> NoBehavior]
    /\ Len(last.preRules) = 2
    /\ last.tag = "Some" /\ last.val = "x"

\* C2: every dispatch appends its input to the log, whatever its outcome:
\* a value, a deferral to the real implementation, or the panic.
CallAlwaysLogged ==
    Dispatched =>
        /\ logs = Append(last.preLogs, last.input)
        /\ last.tag \in {"Some", "None", "Panic"}

\* a dispatch no rule matched: it panicked, and its input is in the log
CallAlwaysLoggedWitness ==
    /\ Dispatched /\ Winner = 0 /\ last.tag = "Panic"
    /\ last.preLogs = <<3>> /\ last.input = 2
    /\ logs = <<3, 2>>

\* C3: when the first accepting rule is a CallsRealImpl rule, dispatch returns
\* None at once (no value, no later rule invoked) and the call is in the log.
RealImplDefers ==
    (Dispatched /\ Winner # 0
        /\ last.preRules[Winner].behavior.kind = "CallsRealImpl") =>
        /\ last.tag = "None" /\ last.val = ""
        /\ rules = last.preRules
        /\ logs = Append(last.preLogs, last.input)

\* calls_real_impl(Eq(3)), then a rule that accepts 3 too: dispatch(3) defers
RealImplDefersWitness ==
    /\ Dispatched /\ last.input = 3 /\ last.tag = "None"
    /\ Len(origin) = 2
    /\ origin[1].op = "calls_real_impl" /\ origin[1].matcher = Eq(3)
    /\ origin[2].op = "returns" /\ origin[2].matcher = Any
    /\ Len(last.preRules) = 2
    /\ logs = <<3>>

\* C4: when no rule accepts the input (the rule list may be empty) dispatch
\* panics with the mock's name and all the rules in registration order; it
\* returns None only when a CallsRealImpl rule was the first to accept.
UnconfiguredIsFatal ==
    Dispatched =>
        /\ Winner = 0 => last.tag = "Panic" /\ last.msg = NotFoundMessage
        /\ last.tag = "None" =>
              /\ Winner # 0
              /\ last.preRules[Winner].behavior.kind = "CallsRealImpl"

\* the message the test mock_not_found_with_rules expects
UnconfiguredIsFatalWitness ==
    /\ Dispatched /\ last.input = 2 /\ last.tag = "Panic"
    /\ Len(origin) = 2
    /\ origin[1].op = "returns_with" /\ origin[2].op = "calls_real_impl"
    /\ last.msg = "mock not found for a\n[Rule { matcher: Eq(3), behavior: Function(_) }, Rule { matcher: Eq(3), behavior: CallsRealImpl }]"

\* C5: Matcher::Never accepts no input: when every rule was registered with
\* Matcher::Never (by returns, returns_with or calls_real_impl) a dispatch
\* panics with the mock-not-found message; it neither returns a value nor defers.
NeverMatchesNothing ==
    (Dispatched /\ Len(last.preRules) >= 1
        /\ Len(origin) = Len(last.preRules)
        /\ \A i \in 1..Len(origin) : origin[i].matcher = Never) =>
        /\ last.tag = "Panic"
        /\ last.msg = NotFoundMessage

\* returns(Never, "x") and calls_real_impl(Never), then a dispatch
NeverMatchesNothingWitness ==
    /\ Dispatched /\ last.tag = "Panic"
    /\ Len(last.preRules) = 2 /\ Len(origin) = 2
    /\ origin[1].op = "returns" /\ origin[1].matcher = Never
    /\ origin[2].op = "calls_real_impl" /\ origin[2].matcher = Never

---------------------------------------------------------------------------
(* Properties of assert_called *)

Asserted == last.op = "assert_called"

\* how many entries of l equal v
Count(l, v) == Cardinality({i \in 1..Len(l) : l[i] = v})

RECURSIVE IsSubsequence(_, _)
\* sub is l with some entries left out, the others in l's order
IsSubsequence(sub, l) ==
    IF sub = <<>> THEN TRUE
    ELSE IF l = <<>> THEN FALSE
         ELSE IF Head(sub) = Head(l)
              THEN IsSubsequence(Tail(sub), Tail(l))
              ELSE IsSubsequence(sub, Tail(l))

SomeIssuedMatches == \E i \in 1..Len(issued) : Matches(last.matcher, issued[i])

\* C6: after N >= 1 dispatches, assert_called(Matcher::Any) returns a MockResult
\* with the mock's name and a log of the N dispatched inputs in call order.
AssertAnyReturnsWholeLog ==
    (Asserted /\ last.matcher = Any /\ Len(issued) >= 1) =>
        /\ last.tag = "MockResult"
        /\ last.res.name = name
        /\ Len(last.res.logs) = Len(issued)
        /\ last.res.logs = issued

\* dispatch 3, then 2: the log is [3, 2]
AssertAnyReturnsWholeLogWitness ==
    /\ Asserted /\ last.matcher = Any
    /\ issued = <<3, 2>>
    /\ last.res = [name |-> "a", logs |-> <<3, 2>>]

\* C7: when the matcher accepts at least one dispatched input, assert_called
\* returns exactly the accepted entries: each as often as it was dispatched,
\* no rejected entry, in the order of the log.
AssertReturnsMatches ==
    (Asserted /\ SomeIssuedMatches) =>
        /\ last.tag = "MockResult"
        /\ \A i \in 1..Len(last.res.logs) : Matches(last.matcher, last.res.logs[i])
        /\ \A v \in Inputs :
              Matches(last.matcher, v) => Count(last.res.logs, v) = Count(issued, v)
        /\ IsSubsequence(last.res.logs, issued)

\* dispatch 2, 3, 2, then assert_called(Eq(2)): the result's log is [2, 2]
AssertReturnsMatchesWitness ==
    /\ Asserted /\ last.matcher = Eq(2)
    /\ issued = <<2, 3, 2>>
    /\ last.tag = "MockResult"
    /\ last.res.logs = <<2, 2>>

\* C8: assert_called panics exactly when the matcher accepts no dispatched
\* input (none may have been dispatched), and the panic message holds the
\* mock's name and the whole log, unfiltered, in call order.
AssertMissIsFatal ==
    Asserted =>
        /\ last.tag = "Panic" <=> ~SomeIssuedMatches
        /\ last.tag = "Panic" =>
              last.msg = name \o " was not called\n" \o DebugLogs(issued)

\* dispatch 3, 3, 3, then assert_called(Eq(2)): the message shows [3, 3, 3]
AssertMissIsFatalWitness ==
    /\ Asserted /\ last.matcher = Eq(2)
    /\ issued = <<3, 3, 3>>
    /\ last.tag = "Panic"
    /\ last.msg = "a was not called\n[3, 3, 3]"

---------------------------------------------------------------------------
(* Properties of Const behaviors *)

\* C9: a rule registered with returns(matcher, v) returns v on every dispatch
\* it is the first accepting rule of, however many there are: the value is not
\* consumed (the rule is as it was before the dispatch).
ReturnsNeverRunsOut ==
    (Dispatched /\ Winner # 0 /\ origin[Winner].op = "returns") =>
        /\ last.tag = "Some"
        /\ last.val = origin[Winner].ret
        /\ rules = last.preRules

\* returns(Any, "y"), then the third dispatch in a row
ReturnsNeverRunsOutWitness ==
    /\ Dispatched /\ last.tag = "Some" /\ last.val = "y"
    /\ Len(origin) = 1
    /\ origin[1].op = "returns" /\ origin[1].matcher = Any /\ origin[1].ret = "y"
    /\ Len(last.preRules) = 1
    /\ Len(issued) = 3 /\ Len(logs) = 3

\* C10: a Const over a finite sequence of k values returns them in order on
\* the first k dispatches the rule is the first accepting rule of; the next
\* such dispatch panics: no value, no None, and no later rule is tried.
FiniteConstRunsOut ==
    (Dispatched /\ Winner # 0 /\ Counted(origin[Winner])) =>
        LET seq == origin[Winner].behavior.iter.items
            n == wins[Winner]
        IN  /\ n >= 1
            /\ n <= Len(seq) => last.tag = "Some" /\ last.val = seq[n]
            /\ n > Len(seq) =>
                  /\ last.tag = "Panic"
                  /\ last.msg = UnwrapMessage
                  /\ OthersUntouched(Winner)

\* a Const over <<"x", "y">> before a rule that accepts everything: the third
\* dispatch panics
FiniteConstRunsOutWitness ==
    /\ Dispatched /\ last.tag = "Panic" /\ last.msg = UnwrapMessage
    /\ Len(origin) = 2 /\ Len(last.preRules) = 2
    /\ Counted(origin[1]) /\ origin[1].matcher = Any
    /\ origin[1].behavior.iter.items = <<"x", "y">>
    /\ origin[2].op = "returns" /\ origin[2].matcher = Any
    /\ wins[1] = 3

---------------------------------------------------------------------------
(* Concurrent dispatch: threads sharing one Mock                            *)
(*                                                                         *)
(* record_call_and_find_mock_output takes &mut self, so a thread has the   *)
(* Mock to itself from the moment its call starts to the moment it returns *)
(* or panics; the threads reach the Mock through whatever hands out that   *)
(* exclusive borrow (the generated code takes a write lock).  Rules are    *)
(* registered before the threads start.                                    *)

\* one registration call
Register(self, o) ==
    CASE o.op = "returns" -> returns(self, o.matcher, o.ret)
      [] o.op = "calls_real_impl" -> calls_real_impl(self, o.matcher)
      [] OTHER -> returns_with(self, o.matcher, o.behavior)

RECURSIVE Configure(_, _)
\* the Mock after the registration calls ops, in order
Configure(self, ops) ==
    IF ops = <<>> THEN self
    ELSE Configure(Register(self, Head(ops)).self, Tail(ops))

SetupOp(op, matcher, ret, behavior) ==
    [op |-> op, matcher |-> matcher, ret |-> ret, behavior |-> behavior]

\* the rule lists the threads run against
ConcSetups ==
    { <<SetupOp("returns_with", Any, "", Const(Finite(<<"x", "y", "z">>)))>>,
      <<SetupOp("returns_with", Eq(3), "", Const(Finite(<<"x", "y", "z">>))),
        SetupOp("returns_with", Any, "", Function("repeat_a"))>>,
      <<SetupOp("calls_real_impl", Eq(3), "", NoBehavior),
        SetupOp("returns", Any, "x", NoBehavior)>> }

\* the dispatches of a thread: CallsPerThread inputs, alternating between two
\* values (or one)
Plans ==
    {[k \in 1..CallsPerThread |-> IF k % 2 = 1 THEN a ELSE b] : a, b \in Inputs}

\* the input of the dispatch thread t is in, or will start next
CurrentInput(t) == plan[t][Len(done[t]) + 1]

\* the dispatches that have returned or panicked
Completed == {id \in Threads \X (1..CallsPerThread) : id[2] <= Len(done[id[1]])}

\* the threads inside record_call_and_find_mock_output
Inside == {t \in Threads : pc[t] \in {"entered", "logged"}}

ConcInit ==
    /\ PureIdle
    /\ LockIdle
    /\ name \in Names
    /\ setup \in ConcSetups
    /\ logs = Configure(New(name), setup).logs
    /\ rules = Configure(New(name), setup).rules
    /\ plan \in [Threads -> Plans]
    /\ pc = [t \in Threads |-> "idle"]
    /\ done = [t \in Threads |-> <<>>]
    /\ began = [t \in Threads |-> <<>>]
    /\ logIds = <<>>
    /\ handed = <<>>
    /\ last = [op |-> "new", input |-> 0, matcher |-> NoMatcher, tag |-> "Unit",
               val |-> "", msg |-> "", res |-> NoResult,
               preLogs |-> <<>>, preRules |-> <<>>]
    /\ issued = <<>>
    /\ origin = <<>>
    /\ wins = <<>>

\* thread t starts its next dispatch
ThreadCall(t) ==
    /\ pc[t] = "idle"
    /\ Len(done[t]) < Len(plan[t])
    /\ pc' = [pc EXCEPT ![t] = "called"]
    /\ began' = [began EXCEPT ![t] = Append(@, Completed)]
    /\ UNCHANGED <<seqVars, setup, plan, done, logIds, handed, pureVars, lockVars>>

\* thread t gets the Mock as &mut self: no other thread is inside
ThreadEnter(t) ==
    /\ pc[t] = "called"
    /\ Inside = {}
    /\ pc' = [pc EXCEPT ![t] = "entered"]
    /\ UNCHANGED <<seqVars, setup, plan, done, began, logIds, handed, pureVars, lockVars>>

\* self.logs.lock().push(input.clone()): the lock is taken and dropped within
\* the statement
ThreadLog(t) ==
    /\ pc[t] = "entered"
    /\ logs' = Push(logs, CurrentInput(t))
    /\ logIds' = Append(logIds, <<t, Len(done[t]) + 1>>)
    /\ pc' = [pc EXCEPT ![t] = "logged"]
    /\ UNCHANGED <<name, rules, last, issued, origin, wins>>
    /\ UNCHANGED <<setup, plan, done, began, handed, pureVars, lockVars>>

\* the rule loop, and the return or the panic, which ends the borrow
ThreadScan(t) ==
    /\ pc[t] = "logged"
    /\ LET r == ScanRules(Self, rules, 1, CurrentInput(t))
           w == FirstAccepting(rules, CurrentInput(t))
       IN  /\ rules' = r.self.rules
           /\ done' = [done EXCEPT ![t] =
                          Append(@, [input |-> CurrentInput(t), tag |-> r.tag,
                                     val |-> r.val, msg |-> r.msg])]
           /\ handed' = IF w # 0 /\ r.tag = "Some" /\ rules[w].behavior.kind = "Const"
                        THEN Append(handed, [rule |-> w, val |-> r.val])
                        ELSE handed
    /\ pc' = [pc EXCEPT ![t] = "idle"]
    /\ UNCHANGED <<name, logs, last, issued, origin, wins>>
    /\ UNCHANGED <<setup, plan, began, logIds, pureVars, lockVars>>

ConcNext ==
    \E t \in Threads :
        \/ ThreadCall(t)
        \/ ThreadEnter(t)
        \/ ThreadLog(t)
        \/ ThreadScan(t)

SpecConc == ConcInit /\ [][ConcNext]_vars

\* every thread has made all its dispatches
AllDone == \A t \in Threads : Len(done[t]) = Len(plan[t])

\* the input of dispatch id = <<thread, number>>
InputOf(id) == plan[id[1]][id[2]]

\* C11: concurrent dispatch neither loses nor duplicates log entries: the log
\* holds one entry per dispatch that has recorded its call, with that
\* dispatch's input, and once N threads have made M dispatches each it has
\* N * M entries, each input as often as the threads dispatched it.
NoLostOrDuplicateEntry ==
    /\ Len(logs) = Len(logIds)
    /\ \A p, q \in 1..Len(logIds) : p # q => logIds[p] # logIds[q]
    /\ \A v \in Inputs :
          Count(logs, v) = Cardinality({p \in 1..Len(logIds) : InputOf(logIds[p]) = v})
    /\ AllDone =>
          /\ Len(logs) = Cardinality(Threads) * CallsPerThread
          /\ \A v \in Inputs :
                Count(logs, v) =
                    Cardinality({id \in Threads \X (1..CallsPerThread) : InputOf(id) = v})

\* two threads, two dispatches each, all of the same input, interleaved
NoLostOrDuplicateEntryWitness ==
    /\ AllDone
    /\ \A id \in Threads \X (1..CallsPerThread) : InputOf(id) = 3
    /\ logs = <<3, 3, 3, 3>>
    /\ logIds = <<<<1, 1>>, <<2, 1>>, <<2, 2>>, <<1, 2>>>>

\* the position of dispatch id in the log, 0 when it has not recorded its call
LogPos(id) ==
    IF \E q \in 1..Len(logIds) : logIds[q] = id
    THEN CHOOSE q \in 1..Len(logIds) : logIds[q] = id
    ELSE 0

\* C12: the log keeps the true call order under concurrent dispatch: the entry
\* at each position is the input of the dispatch that recorded there, a
\* dispatch that completed before another began has its entry earlier in the
\* log, and the dispatches of one thread appear in program order.
LogKeepsCallOrder ==
    /\ Len(logs) = Len(logIds)
    /\ \A q \in 1..Len(logIds) : logs[q] = InputOf(logIds[q])
    /\ \A q \in 1..Len(logIds) :
          LET t == logIds[q][1]
              k == logIds[q][2]
          IN  /\ k <= Len(began[t])
              /\ \A a \in began[t][k] : LogPos(a) # 0 /\ LogPos(a) < q
              /\ \A j \in 1..(k - 1) : LogPos(<<t, j>>) # 0 /\ LogPos(<<t, j>>) < q

\* thread 2 made its first dispatch (of 3) before thread 1 began its first
\* (of 2), and thread 1's second came before thread 2's second
LogKeepsCallOrderWitness ==
    /\ AllDone
    /\ began[1][1] = {<<2, 1>>}
    /\ began[2][2] = {<<2, 1>>, <<1, 1>>, <<1, 2>>}
    /\ plan[1] = <<2, 2>>
    /\ plan[2] = <<3, 3>>
    /\ logs = <<3, 2, 2, 3>>

\* the rules of the setup that hand out a finite sequence
FiniteConstRules ==
    {i \in 1..Len(setup) : /\ setup[i].op = "returns_with"
                           /\ setup[i].behavior.kind = "Const"
                           /\ ~setup[i].behavior.iter.endless}

RECURSIVE HandedBy(_, _)
\* the values rule i handed out among the entries h of handed, in order
HandedBy(h, i) ==
    IF h = <<>> THEN <<>>
    ELSE IF Head(h).rule = i THEN <<Head(h).val>> \o HandedBy(Tail(h), i)
    ELSE HandedBy(Tail(h), i)

\* the completed dispatches that rule i answered with a value
AnsweredBy(i) ==
    {id \in Completed : /\ FirstAccepting(rules, InputOf(id)) = i
                        /\ done[id[1]][id[2]].tag = "Some"}

\* C13: concurrent dispatches served by one Const rule never receive the same
\* element twice and skip none: after k successful dispatches the values
\* handed out are the first k elements of the sequence, in order, each
\* received by exactly one dispatch, and the cursor stands behind them.
ConstCursorExact ==
    \A i \in FiniteConstRules :
        LET items == setup[i].behavior.iter.items
            k == Cardinality(AnsweredBy(i))
        IN  /\ k <= Len(items)
            /\ HandedBy(handed, i) = SubSeq(items, 1, k)
            /\ \A j \in 1..k :
                  Cardinality({id \in AnsweredBy(i) :
                                  done[id[1]][id[2]].val = items[j]}) = 1
            /\ rules[i].behavior.iter.items = SubSeq(items, k + 1, Len(items))

\* the two threads alternate on a rule handing out x, y, z: thread 1 gets x
\* and z, thread 2 gets y, and thread 2's second dispatch finds it exhausted
ConstCursorExactWitness ==
    /\ AllDone
    /\ Len(setup) = 1
    /\ FiniteConstRules = {1}
    /\ done[1][1].val = "x" /\ done[2][1].val = "y" /\ done[1][2].val = "z"
    /\ done[2][2].tag = "Panic"
    /\ handed = <<[rule |-> 1, val |-> "x"], [rule |-> 1, val |-> "y"],
                  [rule |-> 1, val |-> "z"]>>

RECURSIVE Outcomes(_, _)
\* what the dispatches ids return when they run one after the other on self
Outcomes(self, ids) ==
    IF ids = <<>> THEN <<>>
    ELSE LET r == record_call_and_find_mock_output(self, InputOf(Head(ids)))
         IN  <<[id |-> Head(ids), input |-> InputOf(Head(ids)), tag |-> r.tag,
                val |-> r.val, msg |-> r.msg]>> \o Outcomes(r.self, Tail(ids))

RECURSIVE ThreadIds(_, _)
\* the dispatches of thread t from number k on
ThreadIds(t, k) ==
    IF k > CallsPerThread THEN <<>> ELSE <<<<t, k>>>> \o ThreadIds(t, k + 1)

\* one interleaving: thread 1 makes all its dispatches, then thread 2
OneAfterTheOther == ThreadIds(1, 1) \o ThreadIds(2, 1)

\* what outcome o of Outcomes says a dispatch returns, as done records it
Returned(o) == [input |-> o.input, tag |-> o.tag, val |-> o.val, msg |-> o.msg]

\* the dispatches of the log that have returned or panicked, in log order
LoggedAndCompleted ==
    IF logIds # <<>> /\ logIds[Len(logIds)] \notin Completed
    THEN SubSeq(logIds, 1, Len(logIds) - 1)
    ELSE logIds

\* every completed dispatch returned what it returns when the threads run one
\* after the other
SameInEveryInterleaving ==
    LET outs == Outcomes(Configure(New(name), setup), OneAfterTheOther)
    IN  \A q \in 1..Len(outs) :
            LET id == outs[q].id
            IN  id \in Completed => done[id[1]][id[2]] = Returned(outs[q])

\* every completed dispatch returned what it returns when the dispatches run
\* one at a time in the order of the log
SameAsInLogOrder ==
    LET outs == Outcomes(Configure(New(name), setup), LoggedAndCompleted)
    IN  \A q \in 1..Len(outs) :
            LET id == outs[q].id
            IN  done[id[1]][id[2]] = Returned(outs[q])

\* C14 as stated: for a fixed rule list and fixed per-thread sequences of
\* dispatches, what each dispatch returns (Some(value), None or the fatal
\* failure) is the same in every interleaving of the threads.
DeterministicUnderConcurrency == SameInEveryInterleaving

\* C14 amended: what each dispatch returns is the same in every interleaving
\* when no rule hands out a finite sequence of values; with such a rule, what
\* the dispatches return is what they return run one at a time in the order
\* in which they recorded their calls.
DeterministicWithoutCursors ==
    /\ FiniteConstRules = {} => SameInEveryInterleaving
    /\ SameAsInLogOrder

\* without a finite sequence: thread 2 ran first, both threads dispatched 3
\* (deferred to the real implementation) and 2 (answered by returns)
DeterministicWithoutCursorsWitness ==
    /\ AllDone
    /\ Len(setup) = 2 /\ setup[1].op = "calls_real_impl"
    /\ logIds = <<<<2, 1>>, <<1, 1>>, <<2, 2>>, <<1, 2>>>>
    /\ plan[1] = <<3, 2>> /\ plan[2] = <<2, 3>>
    /\ done[1][1].tag = "None" /\ done[1][2].val = "x"
    /\ done[2][1].val = "x" /\ done[2][2].tag = "None"

---------------------------------------------------------------------------
(* Times: the call-count predicate (mock_locator/times.rs)                  *)

\* std::ops::Bound<u64>
Included(n) == [kind |-> "Included", n |-> n]
Excluded(n) == [kind |-> "Excluded", n |-> n]
Unbounded == [kind |-> "Unbounded", n |-> 0]

\* enum Times
Exact(n) == [kind |-> "Exact", n |-> n, lo |-> Unbounded, hi |-> Unbounded]
Range(lo, hi) == [kind |-> "Range", n |-> 0, lo |-> lo, hi |-> hi]

\* RangeBounds::contains on a pair of bounds
RangeContains(lo, hi, count) ==
    /\ CASE lo.kind = "Included" -> lo.n <= count
         [] lo.kind = "Excluded" -> lo.n < count
         [] OTHER -> TRUE
    /\ CASE hi.kind = "Included" -> count <= hi.n
         [] hi.kind = "Excluded" -> count < hi.n
         [] OTHER -> TRUE

\* a predicate that takes an excluded upper bound as included
ContainsClosedAbove(times, count) ==
    IF times.kind = "Exact" THEN count = times.n
    ELSE RangeContains(times.lo,
                       IF times.hi.kind = "Excluded" THEN Included(times.hi.n)
                       ELSE times.hi,
                       count)

\* Times::contains
Contains(times, count) ==
    IF times.kind = "Exact" THEN count = times.n
    ELSE RangeContains(times.lo, times.hi, count)

\* the Rust values Times is converted from: n, a..b, a..=b, a.., ..b
RangeExpr(kind, start, end) == [kind |-> kind, start |-> start, end |-> end]

\* impl From<u64 | Range | RangeInclusive | RangeFrom | RangeTo> for Times:
\* start_bound() and end_bound() of the range
From(r) ==
    CASE r.kind = "u64" -> Exact(r.start)
      [] r.kind = "Range" -> Range(Included(r.start), Excluded(r.end))
      [] r.kind = "RangeInclusive" -> Range(Included(r.start), Included(r.end))
      [] r.kind = "RangeFrom" -> Range(Included(r.start), Unbounded)
      [] OTHER -> Range(Unbounded, Excluded(r.end))

\* a rendering that writes <= for both kinds of upper bound
DisplayTimesClosedAbove(times) ==
    IF times.kind = "Exact" THEN DisplayUsize(times.n)
    ELSE (CASE times.lo.kind = "Included" -> DisplayUsize(times.lo.n) \o "<="
            [] times.lo.kind = "Excluded" -> DisplayUsize(times.lo.n) \o "<"
            [] OTHER -> "")
         \o "x" \o
         (CASE times.hi.kind \in {"Included", "Excluded"} ->
                   "<=" \o DisplayUsize(times.hi.n)
            [] OTHER -> "")

\* impl fmt::Display for Times
DisplayTimes(times) ==
    IF times.kind = "Exact" THEN DisplayUsize(times.n)
    ELSE (CASE times.lo.kind = "Included" -> DisplayUsize(times.lo.n) \o "<="
            [] times.lo.kind = "Excluded" -> DisplayUsize(times.lo.n) \o "<"
            [] OTHER -> "")
         \o "x" \o
         (CASE times.hi.kind = "Included" -> "<=" \o DisplayUsize(times.hi.n)
            [] times.hi.kind = "Excluded" -> "<" \o DisplayUsize(times.hi.n)
            [] OTHER -> "")

---------------------------------------------------------------------------
(* The functions of the engine that need no Mock, applied to drawn inputs  *)

BoundValues == (0..MaxBound) \cup {12}
Bounds == {Unbounded} \cup {Included(n) : n \in BoundValues}
                      \cup {Excluded(n) : n \in BoundValues}
TimesSet == {Exact(n) : n \in BoundValues} \cup
            {Range(lo, hi) : lo \in Bounds, hi \in Bounds}
Counts == 0..MaxCount
RangeExprs ==
    {RangeExpr("u64", n, 0) : n \in BoundValues} \cup
    {RangeExpr(k, a, b) : k \in {"Range", "RangeInclusive"},
                          a \in BoundValues, b \in BoundValues} \cup
    {RangeExpr("RangeFrom", n, 0) : n \in BoundValues} \cup
    {RangeExpr("RangeTo", 0, n) : n \in BoundValues}

\* the arguments of one evaluation
ContainsInput(times, count) ==
    [NoCalc EXCEPT !.op = "contains", !.times = times, !.count = count]
DisplayInput(times) == [NoCalc EXCEPT !.op = "display", !.times = times]
FromInput(r) == [NoCalc EXCEPT !.op = "from", !.range = r]

\* the count check of a MockResult: passes when times contains the number of
\* entries of the result, and otherwise fails naming the expected counts, as
\* times renders them, and the actual number
MockResultTimes(res, times) ==
    IF Contains(times, Len(res.logs))
    THEN [tag |-> "Unit", expected |-> "", actual |-> 0]
    ELSE [tag |-> "Panic", expected |-> DisplayTimes(times), actual |-> Len(res.logs)]

\* the logs a Mock may hold: up to MaxLogLen calls
MaxLogLen == 3
LogsSet == UNION {[1..n -> Inputs] : n \in 0..MaxLogLen}
CheckTimes ==
    {Exact(n) : n \in 0..MaxLogLen} \cup
    {Range(lo, hi) : lo \in {Unbounded, Included(1), Excluded(1)},
                     hi \in {Unbounded, Included(2), Excluded(2)}}
CountCheckInput(l, matcher, times) ==
    [NoCalc EXCEPT !.op = "times", !.logs = l, !.matcher = matcher, !.times = times]

\* alphabets(0..6): a matcher is generated for the tuples of 0 to 5 arguments
ArityEnd == 6
Arities == 0..(ArityEnd - 1)

RECURSIVE TupleMatchesAnyPosition(_, _)
\* a body joining the positions with ||, ending in false
TupleMatchesAnyPosition(ms, args) ==
    IF ms = <<>> THEN FALSE
    ELSE Matches(Head(ms), Head(args)) \/ TupleMatchesAnyPosition(Tail(ms), Tail(args))

RECURSIVE TupleMatches(_, _)
\* the generated Match::matches of a tuple of matchers:
\* self.0.matches(a) && self.1.matches(b) && ... && true
TupleMatches(ms, args) ==
    IF ms = <<>> THEN TRUE
    ELSE Matches(Head(ms), Head(args)) /\ TupleMatches(Tail(ms), Tail(args))

TupleInput(ms, args) == [NoCalc EXCEPT !.op = "matches", !.ms = ms, !.args = args]

PureInputs ==
    {ContainsInput(times, count) : times \in TimesSet, count \in Counts} \cup
    {DisplayInput(times) : times \in TimesSet} \cup
    {FromInput(r) : r \in RangeExprs} \cup
    {CountCheckInput(l, m, times) :
        l \in LogsSet, m \in AssertMatchers, times \in CheckTimes}

\* a new Mock that nothing has been done to
SeqIdle ==
    /\ name \in Names
    /\ logs = New(name).logs
    /\ rules = New(name).rules
    /\ last = [op |-> "new", input |-> 0, matcher |-> NoMatcher, tag |-> "Unit",
               val |-> "", msg |-> "", res |-> NoResult,
               preLogs |-> <<>>, preRules |-> <<>>]
    /\ issued = <<>>
    /\ origin = <<>>
    /\ wins = <<>>

PureInit ==
    /\ SeqIdle
    /\ ConcIdle
    /\ wrapper = NoWrapper
    /\ \/ calc \in PureInputs
       \/ \E n \in Arities :
             \E ms \in [1..n -> RuleMatchers], args \in [1..n -> Inputs] :
                 calc = TupleInput(ms, args)

\* times.contains(&count)
EvalContains ==
    /\ calc.op = "contains" /\ ~calc.applied
    /\ calc' = [calc EXCEPT !.applied = TRUE, !.ok = Contains(calc.times, calc.count)]
    /\ UNCHANGED <<seqVars, concVars, wrapper>>

\* times.to_string()
EvalDisplay ==
    /\ calc.op = "display" /\ ~calc.applied
    /\ calc' = [calc EXCEPT !.applied = TRUE, !.text = DisplayTimes(calc.times)]
    /\ UNCHANGED <<seqVars, concVars, wrapper>>

\* Times::from(range), and its to_string()
EvalFrom ==
    /\ calc.op = "from" /\ ~calc.applied
    /\ calc' = [calc EXCEPT !.applied = TRUE, !.times = From(calc.range),
                            !.text = DisplayTimes(From(calc.range))]
    /\ UNCHANGED <<seqVars, concVars, wrapper>>

\* mock.assert_called(matcher).times(times) on a Mock holding calc.logs
EvalCountCheck ==
    /\ calc.op = "times" /\ ~calc.applied
    /\ LET self == [name |-> name, logs |-> calc.logs, rules |-> <<>>]
           r == assert_called(self, calc.matcher)
           c == MockResultTimes(r.res, calc.times)
       IN  calc' = IF r.tag = "Panic"
                   THEN [calc EXCEPT !.applied = TRUE, !.tag = "AssertPanic",
                                     !.msg = r.msg]
                   ELSE [calc EXCEPT !.applied = TRUE, !.tag = c.tag,
                                     !.res = r.res.logs, !.text = c.expected,
                                     !.count = c.actual]
    /\ UNCHANGED <<seqVars, concVars, wrapper>>

\* (m0, m1, ...).matches(&(a, b, ...))
EvalTupleMatches ==
    /\ calc.op = "matches" /\ ~calc.applied
    /\ calc' = [calc EXCEPT !.applied = TRUE, !.ok = TupleMatches(calc.ms, calc.args)]
    /\ UNCHANGED <<seqVars, concVars, wrapper>>

PureNext ==
    \/ EvalContains
    \/ EvalDisplay
    \/ EvalFrom
    \/ EvalCountCheck
    \/ EvalTupleMatches

SpecPure == PureInit /\ [][PureNext]_vars

\* the counts a Times stands for, as a set of numbers
Admitted(times) ==
    IF times.kind = "Exact" THEN {times.n}
    ELSE LET least == CASE times.lo.kind = "Included" -> times.lo.n
                        [] times.lo.kind = "Excluded" -> times.lo.n + 1
                        [] OTHER -> 0
         IN  {c \in least..(MaxCount + 12) :
                 CASE times.hi.kind = "Included" -> c \in 0..times.hi.n
                   [] times.hi.kind = "Excluded" -> c + 1 \in 0..times.hi.n
                   [] OTHER -> TRUE}

ContainsApplied(times, count) ==
    calc.op = "contains" /\ calc.applied /\ calc.times = times /\ calc.count = count

\* C15: Times::contains is membership in the interval: Exact(n) accepts n
\* only; a pair of bounds accepts the counts at or above an included lower
\* bound, above an excluded one, at or below an included upper bound, below an
\* excluded one, with no limit at an unbounded end.  Exact(2) accepts 2 and
\* rejects 1 and 3; [Included(2), Excluded(4)) accepts 2 and 3 and rejects 1,
\* 4 and 5.
ContainsIsIntervalMembership ==
    /\ (calc.op = "contains" /\ calc.applied) =>
          (calc.ok <=> calc.count \in Admitted(calc.times))
    /\ ContainsApplied(Exact(2), 2) => calc.ok
    /\ ContainsApplied(Exact(2), 1) \/ ContainsApplied(Exact(2), 3) => ~calc.ok
    /\ \A c \in {2, 3} :
          ContainsApplied(Range(Included(2), Excluded(4)), c) => calc.ok
    /\ \A c \in {1, 4, 5} :
          ContainsApplied(Range(Included(2), Excluded(4)), c) => ~calc.ok

\* 4 is rejected by [Included(2), Excluded(4))
ContainsIsIntervalMembershipWitness ==
    /\ ContainsApplied(Range(Included(2), Excluded(4)), 4)
    /\ ~calc.ok

\* the rendering of one bound, before and after the x
LowerText(b) ==
    CASE b.kind = "Included" -> DisplayUsize(b.n) \o "<="
      [] b.kind = "Excluded" -> DisplayUsize(b.n) \o "<"
      [] OTHER -> ""
UpperText(b) ==
    CASE b.kind = "Included" -> "<=" \o DisplayUsize(b.n)
      [] b.kind = "Excluded" -> "<" \o DisplayUsize(b.n)
      [] OTHER -> ""

FromApplied(kind, start, end) ==
    calc.op = "from" /\ calc.applied /\ calc.range = RangeExpr(kind, start, end)

\* C16: a Times renders as the bare number when exact and as lower, x, upper
\* when a pair of bounds, a bound being n<= or n< before the x, <=n or <n
\* after it, and nothing when unbounded; the conversions give a number the
\* exact count, a..b an included start and an excluded end, a..=b both
\* included, a.. an included start and no end, ..b no start and an excluded
\* end.  2 renders as 2, 1..2 as 1<=x<2, 1..=2 as 1<=x<=2, 1.. as 1<=x and
\* ..2 as x<2.
TimesDisplayAndFrom ==
    /\ (calc.op \in {"display", "from"} /\ calc.applied) =>
          calc.text = IF calc.times.kind = "Exact" THEN DisplayUsize(calc.times.n)
                      ELSE LowerText(calc.times.lo) \o "x" \o UpperText(calc.times.hi)
    /\ (calc.op = "from" /\ calc.applied) =>
          LET r == calc.range
          IN  /\ r.kind = "u64" => calc.times = Exact(r.start)
              /\ r.kind = "Range" =>
                    calc.times = Range(Included(r.start), Excluded(r.end))
              /\ r.kind = "RangeInclusive" =>
                    calc.times = Range(Included(r.start), Included(r.end))
              /\ r.kind = "RangeFrom" =>
                    calc.times = Range(Included(r.start), Unbounded)
              /\ r.kind = "RangeTo" =>
                    calc.times = Range(Unbounded, Excluded(r.end))
    /\ FromApplied("u64", 2, 0) => calc.text = "2"
    /\ FromApplied("Range", 1, 2) => calc.text = "1<=x<2"
    /\ FromApplied("RangeInclusive", 1, 2) => calc.text = "1<=x<=2"
    /\ FromApplied("RangeFrom", 1, 0) => calc.text = "1<=x"
    /\ FromApplied("RangeTo", 0, 2) => calc.text = "x<2"
    /\ (calc.op = "display" /\ calc.applied
        /\ calc.times = Range(Excluded(12), Included(0))) => calc.text = "12<x<=0"

\* 1..2 converted and rendered
TimesDisplayAndFromWitness ==
    /\ FromApplied("Range", 1, 2)
    /\ calc.times = Range(Included(1), Excluded(2))
    /\ calc.text = "1<=x<2"

\* the entries of l that matcher accepts, counted one by one
Accepted(l, matcher) == Cardinality({q \in 1..Len(l) : Matches(matcher, l[q])})

\* C17: the count check chained on the result of assert_called(matcher) is
\* made against the number of log entries the matcher accepted, not against
\* the length of the log: it fails exactly when Times::contains rejects that
\* number, and the failure names the expected counts and the actual number.
CountCheckUsesMatches ==
    (calc.op = "times" /\ calc.applied /\ calc.tag # "AssertPanic") =>
        LET n == Accepted(calc.logs, calc.matcher)
        IN  /\ n > 0
            /\ Len(calc.res) = n
            /\ calc.tag = "Panic" <=> ~Contains(calc.times, n)
            /\ calc.tag = "Unit" <=> Contains(calc.times, n)
            /\ calc.tag = "Panic" =>
                  calc.text = DisplayTimes(calc.times) /\ calc.count = n

\* three calls, one of them with 2: assert_called(2).times(3) fails with
\* expected 3 and actual 1, though the log has three entries
CountCheckUsesMatchesWitness ==
    /\ calc.op = "times" /\ calc.applied
    /\ calc.logs = <<3, 2, 3>>
    /\ calc.matcher = Eq(2)
    /\ calc.times = Exact(3)
    /\ calc.tag = "Panic" /\ calc.text = "3" /\ calc.count = 1

\* C18: the matcher generated for a tuple of N arguments, N from 0 to 5,
\* accepts a tuple exactly when the matcher of every position accepts the
\* argument at that position; the matcher of the empty tuple accepts always.
TupleMatcherIsConjunction ==
    (calc.op = "matches" /\ calc.applied) =>
        /\ Len(calc.ms) = Len(calc.args)
        /\ Len(calc.ms) \in 0..5
        /\ calc.ok <=> \A i \in 1..Len(calc.ms) : Matches(calc.ms[i], calc.args[i])
        /\ Len(calc.ms) = 0 => calc.ok

\* five positions, the fourth of which does not accept its argument
TupleMatcherIsConjunctionWitness ==
    /\ calc.op = "matches" /\ calc.applied
    /\ calc.ms = <<Any, Eq(3), Eq(3), Eq(3), Any>>
    /\ calc.args = <<2, 3, 3, 2, 2>>
    /\ ~calc.ok

---------------------------------------------------------------------------
(* The function generated around an intercepted method (method.rs)         *)
(*                                                                         *)
(*   fn meow(&self, <args>) -> String {                                    *)
(*       #[cfg(test)]                                                      *)
(*       if let Some(out) = record_call_and_find_mock_output(..) {         *)
(*           return out;                                                   *)
(*       }                                                                 *)
(*       <let pattern = argN;>*                                            *)
(*       <body>                                                            *)
(*   }                                                                     *)
(*                                                                         *)
(* wrapper.test says whether the crate is built with cfg(test), and        *)
(* wrapper.pattern whether the method has arguments declared by a pattern, *)
(* which the wrapper re-binds before the body.  wrapper.trace lists what   *)
(* has run in the current call.                                            *)

\* the body of the intercepted method of the tests: "meow".repeat(count)
RealBody(arg) == StrRepeat("meow", arg)

\* a wrapper that goes on into the body whatever the engine returned
AfterEngineFallsThrough(tag) ==
    CASE tag \in {"Some", "None"} -> "bind"
      [] OTHER -> "panicked"

\* where the wrapper goes on what the engine returned: return out on
\* Some(out), the rest of the function on None; a panic unwinds
AfterEngine(tag) ==
    CASE tag = "Some" -> "returned"
      [] tag = "None" -> "bind"
      [] OTHER -> "panicked"

WrapperInit ==
    /\ ConcIdle
    /\ calc = NoCalc
    /\ name \in Names
    /\ \E s \in ConcSetups :
          /\ logs = Configure(New(name), s).logs
          /\ rules = Configure(New(name), s).rules
    /\ last = [op |-> "new", input |-> 0, matcher |-> NoMatcher, tag |-> "Unit",
               val |-> "", msg |-> "", res |-> NoResult,
               preLogs |-> <<>>, preRules |-> <<>>]
    /\ issued = <<>>
    /\ origin = <<>>
    /\ wins = <<>>
    /\ \E test \in BOOLEAN, pattern \in BOOLEAN :
          wrapper = [NoWrapper EXCEPT !.test = test, !.pattern = pattern]

\* the intercepted method is called
WrapperCall ==
    /\ wrapper.pc \in {"idle", "returned", "panicked"}
    /\ wrapper.calls < MaxWrapperCalls
    /\ \E arg \in Inputs :
          wrapper' = [wrapper EXCEPT !.pc = "entry", !.calls = @ + 1, !.arg = arg,
                                     !.tag = "", !.trace = <<>>, !.ret = "",
                                     !.msg = "", !.preLogs = logs]
    /\ UNCHANGED <<seqVars, concVars, calc>>

\* cfg(test): if let Some(out) = record_call_and_find_mock_output(..)
WrapperConsult ==
    /\ wrapper.pc = "entry"
    /\ wrapper.test
    /\ LET r == record_call_and_find_mock_output(Self, wrapper.arg)
       IN  /\ logs' = r.self.logs
           /\ rules' = r.self.rules
           /\ wrapper' = [wrapper EXCEPT !.pc = AfterEngine(r.tag), !.tag = r.tag,
                                         !.trace = Append(@, "engine"),
                                         !.ret = r.val, !.msg = r.msg]
    /\ UNCHANGED <<name, last, issued, origin, wins, concVars, calc>>

\* not cfg(test): the statement is not compiled
WrapperCompiledOut ==
    /\ wrapper.pc = "entry"
    /\ ~wrapper.test
    /\ wrapper' = [wrapper EXCEPT !.pc = "bind"]
    /\ UNCHANGED <<seqVars, concVars, calc>>

\* the re-binding of the arguments declared by a pattern: let <pat> = argN;
WrapperBind ==
    /\ wrapper.pc = "bind"
    /\ wrapper' = [wrapper EXCEPT !.pc = "body",
                                  !.trace = IF wrapper.pattern
                                            THEN Append(@, "bindings") ELSE @]
    /\ UNCHANGED <<seqVars, concVars, calc>>

\* the body of the method as written
WrapperBody ==
    /\ wrapper.pc = "body"
    /\ wrapper' = [wrapper EXCEPT !.pc = "returned", !.trace = Append(@, "body"),
                                  !.ret = RealBody(wrapper.arg)]
    /\ UNCHANGED <<seqVars, concVars, calc>>

WrapperNext ==
    \/ WrapperCall
    \/ WrapperConsult
    \/ WrapperCompiledOut
    \/ WrapperBind
    \/ WrapperBody

SpecWrapper == WrapperInit /\ [][WrapperNext]_vars

\* something of the real function has run in the current call
RealRan == \E q \in 1..Len(wrapper.trace) : wrapper.trace[q] \in {"bindings", "body"}

\* the engine was consulted first in the current call, and recorded it
ConsultedFirst ==
    /\ wrapper.trace # <<>>
    /\ wrapper.trace[1] = "engine"
    /\ logs = Append(wrapper.preLogs, wrapper.arg)

\* what C19 says of one call of the wrapper
EngineDecides ==
    /\ RealRan => ConsultedFirst
    /\ wrapper.pc = "returned" => (RealRan <=> wrapper.tag = "None")
    /\ wrapper.pc = "panicked" => ~RealRan
    /\ wrapper.pc \in {"bind", "body"} => wrapper.tag = "None"
    /\ wrapper.tag = "Some" =>
          /\ wrapper.pc = "returned"
          /\ wrapper.trace = <<"engine">>
          /\ wrapper.ret \in {"x", "y", "z"} \cup {Apply("repeat_a", i) : i \in Inputs}
    /\ (wrapper.pc = "returned" /\ wrapper.tag = "None") =>
          /\ wrapper.trace = IF wrapper.pattern THEN <<"engine", "bindings", "body">>
                             ELSE <<"engine", "body">>
          /\ wrapper.ret = RealBody(wrapper.arg)

\* C19 as stated: in the generated wrapper the engine is consulted, and the
\* call recorded, before the real body; the real body runs exactly when the
\* engine returned None; when it returned Some(out) the wrapper returns out
\* and nothing of the real body, the re-binding of pattern arguments
\* included, runs.
WrapperConsultsEngineFirst == wrapper.pc \notin {"idle", "entry"} => EngineDecides

\* C19 amended: that holds in a build with cfg(test); in a build without it
\* the engine is not consulted, nothing is recorded, and the real body runs.
WrapperConsultsEngineInTestBuild ==
    /\ (wrapper.test /\ wrapper.pc \notin {"idle", "entry"}) => EngineDecides
    /\ (~wrapper.test /\ wrapper.pc \notin {"idle", "entry"}) =>
          /\ logs = wrapper.preLogs
          /\ wrapper.tag = ""
          /\ \A q \in 1..Len(wrapper.trace) : wrapper.trace[q] # "engine"
          /\ wrapper.pc = "returned" =>
                /\ wrapper.ret = RealBody(wrapper.arg)
                /\ wrapper.trace[Len(wrapper.trace)] = "body"

\* a test build, a method with pattern arguments: the first call was
\* answered by the engine (x) and ran nothing of the real function
WrapperConsultsEngineInTestBuildWitness ==
    /\ wrapper.test /\ wrapper.pattern
    /\ wrapper.pc = "returned"
    /\ wrapper.tag = "Some" /\ wrapper.ret = "x"
    /\ wrapper.trace = <<"engine">>
    /\ logs = <<3>>

---------------------------------------------------------------------------
(* The rule list over the life of a Mock                                   *)

\* a is what is left of b after some elements were taken from its front
IsSuffix(a, b) == \E k \in 0..Len(b) : a = SubSeq(b, k + 1, Len(b))

\* the behavior a registration call puts into its rule
RegisteredBehavior(o) ==
    CASE o.op = "returns" -> Const(Repeat(o.ret))
      [] o.op = "calls_real_impl" -> BehaviorCallsRealImpl
      [] OTHER -> o.behavior

\* now is the rule that was was, in its place: same matcher, same behavior,
\* the cursor of a Const where it was or further on
StillTheRule(now, was) ==
    /\ now.matcher = was.matcher
    /\ now.behavior.kind = was.behavior.kind
    /\ now.behavior.f = was.behavior.f
    /\ now.behavior.iter.endless = was.behavior.iter.endless
    /\ IsSuffix(now.behavior.iter.items, was.behavior.iter.items)

\* C20: the rule list is append-only: returns_with, returns and
\* calls_real_impl each add exactly one rule at the end of the list, and no
\* operation (registration, dispatch, assert_called) removes, reorders or
\* replaces a rule: rule i is at all times the rule of the i-th registration,
\* and the list before an operation is a prefix of the list after it.  (A
\* dispatch moves the cursor of the Const rule it is answered by; the rule
\* stays in its place.)
RuleListAppendOnly ==
    /\ Len(rules) = Len(origin)
    /\ \A i \in 1..Len(rules) :
          StillTheRule(rules[i], Rule(origin[i].matcher, RegisteredBehavior(origin[i])))
    /\ last.op \in {"returns_with", "returns", "calls_real_impl"} =>
          /\ Len(rules) = Len(last.preRules) + 1
          /\ SubSeq(rules, 1, Len(last.preRules)) = last.preRules
          /\ rules[Len(rules)] =
                Rule(last.matcher, RegisteredBehavior(origin[Len(origin)]))
    /\ last.op = "assert_called" => rules = last.preRules
    /\ last.op = "dispatch" =>
          /\ Len(rules) = Len(last.preRules)
          /\ \A i \in 1..Len(rules) : StillTheRule(rules[i], last.preRules[i])
          /\ \A i \in 1..Len(rules) :
                i # FirstAccepting(last.preRules, last.input) =>
                    rules[i] = last.preRules[i]

\* calls_real_impl registered after a Const rule that a dispatch had already
\* moved the cursor of: the Const rule is still first, the new rule second
RuleListAppendOnlyWitness ==
    /\ last.op = "calls_real_impl"
    /\ Len(rules) = 2
    /\ issued # <<>>
    /\ origin[1].op = "returns_with"
    /\ rules[1].behavior.iter.items = <<"y">>
    /\ rules[2] = Rule(last.matcher, BehaviorCallsRealImpl)

---------------------------------------------------------------------------
(* The call log over the life of a Mock                                    *)

\* a is what b began with
IsPrefix(a, b) == Len(a) <= Len(b) /\ a = SubSeq(b, 1, Len(a))

\* C21: the call log is append-only: the log before an operation is a prefix
\* of the log after it, the log has one entry for every dispatch started so
\* far, those that ended in a fatal failure included, in the order of the
\* dispatches, and registering a rule leaves the log as it was.
LogAppendOnly ==
    /\ Len(logs) = Len(issued)
    /\ logs = issued
    /\ IsPrefix(last.preLogs, logs)
    /\ last.op \in {"returns_with", "returns", "calls_real_impl"} =>
          logs = last.preLogs
    /\ last.op = "dispatch" => logs = Append(last.preLogs, last.input)
    /\ last.op = "assert_called" => logs = last.preLogs

\* two dispatches failed on a Mock without rules, then a rule was registered:
\* the log still holds both calls
LogAppendOnlyWitness ==
    /\ last.op = "calls_real_impl"
    /\ last.preRules = <<>>
    /\ issued = <<3, 2>>
    /\ logs = <<3, 2>>

---------------------------------------------------------------------------
(* The Mutex of the log, statement by statement                             *)
(*                                                                         *)
(* Mock::logs is a parking_lot Mutex, which is not reentrant: a thread     *)
(* that locks it while holding it blocks for ever.  The guard returned by  *)
(* lock() is a temporary in all three places it is taken (mod.rs 46, 72    *)
(* and 81) and is dropped at the end of the statement, or by the unwinding *)
(* of the panic the statement raises.  assert_called borrows the Mock      *)
(* shared (&self), the dispatch borrows it exclusively (&mut self).        *)

InDispatch(t) == job[t].pc \in {"d_lock", "d_push", "d_scan"}
InAssert(t) == job[t].pc \in {"a_lock", "a_filter", "a_check", "m_lock", "m_dump"}

\* a dispatch that borrows the Mock shared, like assert_called
MayBorrowMutLikeShared(t) == \A u \in Threads \ {t} : ~InDispatch(u)

\* &mut self: no other thread is in an entry point of the Mock
MayBorrowMut(t) == \A u \in Threads \ {t} : ~InDispatch(u) /\ ~InAssert(u)

\* &self: no other thread is in an entry point that borrows exclusively
MayBorrowShared(t) == \A u \in Threads \ {t} : ~InDispatch(u)

\* a guard bound to a variable, alive to the end of the function
GuardKept(t) == t

\* the holder of the Mutex after a statement whose guard is a temporary
TemporaryGuardDropped(t) == 0

\* the rule lists the threads run against
LockSetups ==
    { <<>>,
      <<SetupOp("calls_real_impl", Eq(3), "", NoBehavior),
        SetupOp("returns", Any, "x", NoBehavior)>> }

LockInit ==
    /\ PureIdle
    /\ LockIdle
    /\ setup = <<>>
    /\ plan = [t \in Threads |-> <<>>]
    /\ pc = [t \in Threads |-> "idle"]
    /\ done = [t \in Threads |-> <<>>]
    /\ began = [t \in Threads |-> <<>>]
    /\ logIds = <<>>
    /\ handed = <<>>
    /\ name \in Names
    /\ \E s \in LockSetups :
          /\ logs = Configure(New(name), s).logs
          /\ rules = Configure(New(name), s).rules
    /\ last = [op |-> "new", input |-> 0, matcher |-> NoMatcher, tag |-> "Unit",
               val |-> "", msg |-> "", res |-> NoResult,
               preLogs |-> <<>>, preRules |-> <<>>]
    /\ issued = <<>>
    /\ origin = <<>>
    /\ wins = <<>>

\* what a step of thread t leaves alone besides the Mock, the Mutex and job
LockFrame ==
    UNCHANGED <<name, last, issued, origin, wins, setup, plan, pc, done, began,
                logIds, handed, pureVars>>

\* thread t calls record_call_and_find_mock_output(input)
StartDispatch(t) ==
    /\ job[t].pc \in {"idle", "done"}
    /\ job[t].n < JobsPerThread
    /\ MayBorrowMut(t)
    /\ \E input \in Inputs :
          job' = [job EXCEPT ![t] = [NoJob EXCEPT !.pc = "d_lock", !.n = job[t].n + 1,
                                                  !.op = "dispatch", !.input = input]]
    /\ UNCHANGED <<logs, rules, mutex>>
    /\ LockFrame

\* self.logs.lock() of line 81
DispatchLock(t) ==
    /\ job[t].pc = "d_lock"
    /\ mutex = 0
    /\ mutex' = t
    /\ job' = [job EXCEPT ![t].pc = "d_push"]
    /\ UNCHANGED <<logs, rules>>
    /\ LockFrame

\* .push(input.clone()); and the end of the statement
DispatchPush(t) ==
    /\ job[t].pc = "d_push"
    /\ logs' = Push(logs, job[t].input)
    /\ mutex' = TemporaryGuardDropped(t)
    /\ job' = [job EXCEPT ![t].pc = "d_scan"]
    /\ UNCHANGED rules
    /\ LockFrame

\* the rule loop, and the return or the panic
DispatchScan(t) ==
    /\ job[t].pc = "d_scan"
    /\ LET r == ScanRules(Self, rules, 1, job[t].input)
       IN  /\ rules' = r.self.rules
           /\ job' = [job EXCEPT ![t].pc = "done", ![t].tag = r.tag,
                                 ![t].val = r.val, ![t].msg = r.msg]
    /\ UNCHANGED <<logs, mutex>>
    /\ LockFrame

\* thread t calls assert_called(matcher)
StartAssert(t) ==
    /\ job[t].pc \in {"idle", "done"}
    /\ job[t].n < JobsPerThread
    /\ MayBorrowShared(t)
    /\ \E matcher \in AssertMatchers :
          job' = [job EXCEPT ![t] = [NoJob EXCEPT !.pc = "a_lock", !.n = job[t].n + 1,
                                                  !.op = "assert_called",
                                                  !.matcher = matcher]]
    /\ UNCHANGED <<logs, rules, mutex>>
    /\ LockFrame

\* self.logs.lock() of line 46
AssertLock(t) ==
    /\ job[t].pc = "a_lock"
    /\ mutex = 0
    /\ mutex' = t
    /\ job' = [job EXCEPT ![t].pc = "a_filter"]
    /\ UNCHANGED <<logs, rules>>
    /\ LockFrame

\* let logs = <guard>.filter_matches(matcher); and the end of the statement
AssertFilter(t) ==
    /\ job[t].pc = "a_filter"
    /\ mutex' = TemporaryGuardDropped(t)
    /\ job' = [job EXCEPT ![t].pc = "a_check", ![t].seen = logs,
                          ![t].filtered = FilterMatches(logs, job[t].matcher)]
    /\ UNCHANGED <<logs, rules>>
    /\ LockFrame

\* if logs.is_empty() { f(); } logs
AssertCheck(t) ==
    /\ job[t].pc = "a_check"
    /\ job' = IF job[t].filtered = <<>>
              THEN [job EXCEPT ![t].pc = "m_lock"]
              ELSE [job EXCEPT ![t].pc = "done", ![t].tag = "MockResult"]
    /\ UNCHANGED <<logs, rules, mutex>>
    /\ LockFrame

\* self.logs.lock() of line 72, in the arguments of panic!
MissLock(t) ==
    /\ job[t].pc = "m_lock"
    /\ mutex = 0
    /\ mutex' = t
    /\ job' = [job EXCEPT ![t].pc = "m_dump"]
    /\ UNCHANGED <<logs, rules>>
    /\ LockFrame

\* panic!("{} was not called\n{:?}", ..): the unwinding drops the guard
MissDump(t) ==
    /\ job[t].pc = "m_dump"
    /\ mutex' = 0
    /\ job' = [job EXCEPT ![t].pc = "done", ![t].tag = "Panic", ![t].dumped = logs,
                          ![t].msg = name \o " was not called\n" \o DebugLogs(logs)]
    /\ UNCHANGED <<logs, rules>>
    /\ LockFrame

LockStep(t) ==
    \/ StartDispatch(t)
    \/ DispatchLock(t)
    \/ DispatchPush(t)
    \/ DispatchScan(t)
    \/ StartAssert(t)
    \/ AssertLock(t)
    \/ AssertFilter(t)
    \/ AssertCheck(t)
    \/ MissLock(t)
    \/ MissDump(t)

LockNext == \E t \in Threads : LockStep(t)

SpecLock == LockInit /\ [][LockNext]_vars

\* every thread that can take a step eventually takes one: the threads are
\* scheduled by the operating system, and a thread waiting for the Mutex gets
\* it once it is free for good
SpecLockFair == SpecLock /\ \A t \in Threads : WF_vars(LockStep(t))

\* thread t is about to lock the Mutex of the log
AboutToLock(t) == job[t].pc \in {"d_lock", "a_lock", "m_lock"}

\* thread t is in an entry point
Running(t) == InDispatch(t) \/ InAssert(t)

\* C22: no operation deadlocks on the lock of the log: a thread about to lock
\* it never holds it already; an assert_called that found no matching entry
\* has released the lock it filtered under before its diagnostic locks
\* again, and goes on to its fatal diagnostic; every operation started
\* comes to its end.
NoSelfDeadlock ==
    /\ [](\A t \in Threads : AboutToLock(t) => mutex # t)
    /\ \A t \in Threads :
          (job[t].pc = "m_lock") ~> (job[t].pc = "done" /\ job[t].tag = "Panic")
    /\ \A t \in Threads : Running(t) ~> (job[t].pc = "done")

\* thread 1's assert_called found nothing and has panicked with its
\* diagnostic, and thread 2 holds the lock in an assert_called of its own
NoSelfDeadlockWitness ==
    /\ job[1].op = "assert_called"
    /\ job[1].pc = "done" /\ job[1].tag = "Panic"
    /\ job[1].msg = "a was not called\n[]"
    /\ job[2].pc = "a_filter"
    /\ mutex = 2

\* thread t's assert_called has failed
AssertFailed(t) ==
    job[t].op = "assert_called" /\ job[t].pc = "done" /\ job[t].tag = "Panic"

\* C23: when assert_called(matcher) fails, the log its diagnostic dumps is
\* the log it filtered, and holds no entry the matcher accepts, though it
\* locked the log once to filter and once more to dump: no dispatch gets in
\* between.
DumpIsTheFilteredLog ==
    \A t \in Threads :
        /\ job[t].pc \in {"a_check", "m_lock", "m_dump"} => logs = job[t].seen
        /\ AssertFailed(t) =>
              /\ job[t].dumped = job[t].seen
              /\ \A q \in 1..Len(job[t].dumped) :
                    ~Matches(job[t].matcher, job[t].dumped[q])
              /\ job[t].msg = assert_called([name |-> name, logs |-> job[t].seen,
                                             rules |-> rules], job[t].matcher).msg

\* thread 1's assert_called(2) failed on a log holding a call with 3; thread
\* 2 dispatched 2 only afterwards
DumpIsTheFilteredLogWitness ==
    /\ AssertFailed(1)
    /\ job[1].matcher = Eq(2)
    /\ job[1].dumped = <<3>>
    /\ job[2].op = "dispatch" /\ job[2].input = 2 /\ job[2].pc = "done"
    /\ logs = <<3, 2>>

---------------------------------------------------------------------------
(* What registering and asserting do to later dispatches                   *)

\* what a dispatch of input returns on the Mock as it is but with rules rs
OutcomeWith(rs, input) ==
    LET r == record_call_and_find_mock_output(
                 [name |-> name, logs |-> logs, rules |-> rs], input)
    IN  [tag |-> r.tag, val |-> r.val, msg |-> r.msg]

\* the fatal failure of a dispatch that no rule of rs accepts
NoRuleMatched(rs) ==
    [tag |-> "Panic", val |-> "",
     msg |-> "mock not found for " \o name \o "\n" \o DebugRules(rs)]

RegisteredLast == last.op \in {"returns_with", "returns", "calls_real_impl"}

\* C24: registering one more rule changes the outcome of no input that a
\* rule registered before accepts: the new rule overrides none of them, and
\* the only inputs whose outcome changes are those that ended in the no rule
\* matched failure before.
RegisteringOverridesNothing ==
    RegisteredLast =>
        \A input \in Inputs :
            /\ FirstAccepting(last.preRules, input) # 0 =>
                  /\ OutcomeWith(rules, input) = OutcomeWith(last.preRules, input)
                  /\ FirstAccepting(rules, input) = FirstAccepting(last.preRules, input)
            /\ OutcomeWith(rules, input) # OutcomeWith(last.preRules, input) =>
                  /\ FirstAccepting(last.preRules, input) = 0
                  /\ OutcomeWith(last.preRules, input) = NoRuleMatched(last.preRules)

\* after returns_with(Eq(3), x then y), returns(Any, y) is registered: 3 is
\* still answered by the first rule, 2 no longer fails
RegisteringOverridesNothingWitness ==
    /\ last.op = "returns" /\ last.matcher = Any /\ last.val = ""
    /\ Len(last.preRules) = 1
    /\ last.preRules[1].matcher = Eq(3)
    /\ last.preRules[1].behavior.kind = "Const"
    /\ rules[2].behavior.iter.items = <<"y">>
    /\ OutcomeWith(last.preRules, 3).val = "x" /\ OutcomeWith(rules, 3).val = "x"
    /\ OutcomeWith(last.preRules, 2).tag = "Panic"
    /\ OutcomeWith(rules, 2) = [tag |-> "Some", val |-> "y", msg |-> ""]

\* the rule holds a cursor that can move: a Const over a finite sequence with
\* elements left
HasNext(rule) ==
    /\ rule.behavior.kind = "Const"
    /\ ~rule.behavior.iter.endless
    /\ rule.behavior.iter.items # <<>>

\* C25: one dispatch invokes at most one behavior, that of the first
\* accepting rule: the rules that reject the input and the rules after the
\* winner are left as they were, so the cursor of a Const rule moves on by
\* exactly one in each dispatch the rule wins and stays where it is in every
\* other dispatch, those that no rule accepts included.
AtMostOneBehavior ==
    /\ Dispatched =>
          /\ Len(rules) = Len(last.preRules)
          /\ \A j \in 1..Len(rules) : j # Winner => rules[j] = last.preRules[j]
          /\ Winner = 0 => rules = last.preRules /\ last.tag = "Panic"
          /\ Winner # 0 =>
                LET was == last.preRules[Winner]
                    now == rules[Winner]
                IN  IF HasNext(was)
                    THEN /\ now.behavior.iter.items = Tail(was.behavior.iter.items)
                         /\ now.matcher = was.matcher
                         /\ last.tag = "Some"
                         /\ last.val = Head(was.behavior.iter.items)
                    ELSE now = was
    /\ \A i \in 1..Len(rules) :
          Counted(origin[i]) =>
              LET seq == origin[i].behavior.iter.items
                  used == IF wins[i] < Len(seq) THEN wins[i] ELSE Len(seq)
              IN  rules[i].behavior.iter.items = SubSeq(seq, used + 1, Len(seq))

\* two Const rules over x, y, the first for 3 only: a dispatch of 2 moves the
\* cursor of the second and leaves the first where it was
AtMostOneBehaviorWitness ==
    /\ Dispatched /\ last.input = 2 /\ last.val = "x"
    /\ Len(rules) = 2
    /\ rules[1].matcher = Eq(3) /\ rules[2].matcher = Any
    /\ rules[1].behavior.iter.items = <<"x", "y">>
    /\ ~rules[1].behavior.iter.endless
    /\ last.preRules[2].behavior.iter.items = <<"x", "y">>
    /\ rules[2].behavior.iter.items = <<"y">>

\* the Mock as it was before the last operation
SelfBefore == [name |-> name, logs |-> last.preLogs, rules |-> last.preRules]

\* C26: assert_called is read-only: whether it succeeds or fails it leaves
\* the log, the rule list and every Const cursor as they were, so the same
\* assertion made again straight away gives the same result, and every
\* dispatch made after it returns what it would have returned without it.
AssertCalledReadOnly ==
    last.op = "assert_called" =>
        /\ logs = last.preLogs
        /\ rules = last.preRules
        /\ LET again == assert_called(Self, last.matcher)
           IN  /\ again.self = Self
               /\ again.tag = last.tag
               /\ again.msg = last.msg
               /\ again.res = last.res
        /\ \A input \in Inputs :
              record_call_and_find_mock_output(Self, input) =
                  record_call_and_find_mock_output(SelfBefore, input)

\* assert_called(2) succeeded with one of two logged calls, on a Mock whose
\* Const rule has handed out x and still holds y
AssertCalledReadOnlyWitness ==
    /\ last.op = "assert_called" /\ last.tag = "MockResult"
    /\ last.matcher = Eq(2)
    /\ logs = <<3, 2>>
    /\ last.res.logs = <<2>>
    /\ Len(rules) = 1
    /\ rules[1].behavior.kind = "Const"
    /\ rules[1].behavior.iter.items = <<"y">>
    /\ record_call_and_find_mock_output(Self, 3).val = "y"

=============================================================================
